---- MODULE Spec2Model ----
(***************************************************************************)
(* Model of src/script.js: the click handler analyzeCode and the three     *)
(* regular-expression driven text passes generateExplanation,              *)
(* generateSuggestion and generateDocumentation.                           *)
(*                                                                         *)
(* A text is a sequence of one-character strings.  The regular expressions *)
(* of the source are kept as syntax trees and run by a backtracking        *)
(* matcher that follows the ECMAScript rules the source relies on: greedy  *)
(* and lazy quantifiers, capture groups, lookahead, ^ and $ with and       *)
(* without the m flag, and the left-to-right scan of exec / matchAll under *)
(* the g flag.  Fixed message texts of the source are kept as one element  *)
(* of the output sequence each.                                            *)
(***************************************************************************)
EXTENDS Integers, Sequences, FiniteSets, TLC

VARIABLES input, originalCode, explanation, suggestion, documentation,
          hidden, alerts, calls, ran, lastCode

vars == <<input, originalCode, explanation, suggestion, documentation,
          hidden, alerts, calls, ran, lastCode>>

(***************************************************************************)
(* Characters                                                              *)
(***************************************************************************)
Letters ==
  {"a","b","c","d","e","f","g","h","i","j","k","l","m","n","o","p","q","r",
   "s","t","u","v","w","x","y","z","A","B","C","D","E","F","G","H","I","J",
   "K","L","M","N","O","P","Q","R","S","T","U","V","W","X","Y","Z"}

Digits == {"0","1","2","3","4","5","6","7","8","9"}

\* \s of a regular expression, and what String.prototype.trim strips
WhiteSpace == {" ", "\t", "\n", "\r", "\f"}

\* what . does not match, and where ^ and $ match under the m flag
LineTerminators == {"\n", "\r"}

InClass(c, ch) ==
  CASE c = "s"     -> ch \in WhiteSpace
    [] c = "id0"   -> ch \in Letters \cup {"_"}
    [] c = "idc"   -> ch \in Letters \cup Digits \cup {"_"}
    [] c = "notrp" -> ch # ")"
    [] c = "any"   -> TRUE
    [] c = "dot"   -> ch \notin LineTerminators
    [] c = "sptab" -> ch \in {" ", "\t"}

(***************************************************************************)
(* Regular expression syntax trees                                         *)
(***************************************************************************)
Lit(s)      == [t |-> "lit", s |-> s]
Cls(c)      == [t |-> "cls", c |-> c]
Cat(rs)     == [t |-> "cat", rs |-> rs]
Alt(rs)     == [t |-> "alt", rs |-> rs]
Star(r)     == [t |-> "rep", r |-> r, min |-> 0, greedy |-> TRUE]
Plus(r)     == [t |-> "rep", r |-> r, min |-> 1, greedy |-> TRUE]
LazyStar(r) == [t |-> "rep", r |-> r, min |-> 0, greedy |-> FALSE]
Grp(n, r)   == [t |-> "grp", n |-> n, r |-> r]
NegLook(r)  == [t |-> "nla", r |-> r]
Look(r)     == [t |-> "pla", r |-> r]
Bol         == [t |-> "bol"]
Eol(m)      == [t |-> "eol", m |-> m]

(***************************************************************************)
(* The backtracking matcher.  A matcher state is the position of the next  *)
(* character and the spans of the two capture groups.  Match gives every   *)
(* way r matches from st, in the order backtracking tries them: the head   *)
(* is the match the engine reports.                                        *)
(***************************************************************************)
NoCaps == <<<<0, 0>>, <<0, 0>>>>

IsPrefixAt(s, code, p) ==
  /\ p + Len(s) - 1 <= Len(code)
  /\ \A i \in 1..Len(s) : code[p + i - 1] = s[i]

RECURSIVE Match(_, _, _)
RECURSIVE MatchEach(_, _, _, _, _)
RECURSIVE MatchAll(_, _, _)
RECURSIVE MatchCat(_, _, _, _)
RECURSIVE MatchAlt(_, _, _, _)

\* the ways r matches from the states lo..hi of sts, in order
MatchEach(r, sts, lo, hi, code) ==
  IF lo > hi THEN <<>>
  ELSE IF lo = hi THEN Match(r, sts[lo], code)
  ELSE LET mid == (lo + hi) \div 2
       IN  MatchEach(r, sts, lo, mid, code) \o MatchEach(r, sts, mid + 1, hi, code)

\* the ways r matches from each state of sts, in order
MatchAll(r, sts, code) == MatchEach(r, sts, 1, Len(sts), code)

MatchCat(rs, i, sts, code) ==
  IF i > Len(rs) \/ sts = <<>> THEN sts
  ELSE MatchCat(rs, i + 1, MatchAll(rs[i], sts, code), code)

MatchAlt(rs, i, st, code) ==
  IF i > Len(rs) THEN <<>>
  ELSE Match(rs[i], st, code) \o MatchAlt(rs, i + 1, st, code)

Match(r, st, code) ==
  CASE r.t = "lit" ->
         IF IsPrefixAt(r.s, code, st.pos)
         THEN <<[st EXCEPT !.pos = st.pos + Len(r.s)]>> ELSE <<>>
    [] r.t = "cls" ->
         IF st.pos <= Len(code) /\ InClass(r.c, code[st.pos])
         THEN <<[st EXCEPT !.pos = st.pos + 1]>> ELSE <<>>
    [] r.t = "cat" -> MatchCat(r.rs, 1, <<st>>, code)
    [] r.t = "alt" -> MatchAlt(r.rs, 1, st, code)
    [] r.t = "rep" ->
         IF r.r.t = "cls"
         THEN \* a repeated character class: the run of characters of the
              \* class from st.pos on, given back one by one (greedy) or
              \* taken one by one (lazy)
              LET stop == CHOOSE q \in st.pos..(Len(code) + 1) :
                            /\ \A i \in st.pos..(q - 1) : InClass(r.r.c, code[i])
                            /\ q = Len(code) + 1 \/ ~InClass(r.r.c, code[q])
                  n    == stop - (st.pos + r.min) + 1
              IN  IF n <= 0 THEN <<>>
                  ELSE [i \in 1..n |->
                          [st EXCEPT !.pos = IF r.greedy THEN stop - (i - 1)
                                             ELSE st.pos + r.min + (i - 1)]]
         ELSE IF r.min > 0
              THEN MatchAll([r EXCEPT !.min = 0], Match(r.r, st, code), code)
              ELSE LET \* an iteration that consumes nothing is not repeated
                       Moved(once) == SelectSeq(once, LAMBDA s : s.pos > st.pos)
                       Then(more)  == IF r.greedy THEN more \o <<st>>
                                      ELSE <<st>> \o more
                   IN  Then(MatchAll(r, Moved(Match(r.r, st, code)), code))
    [] r.t = "grp" ->
         LET Captured(inner) ==
               [i \in 1..Len(inner) |->
                  [inner[i] EXCEPT !.caps[r.n] = <<st.pos, inner[i].pos>>]]
         IN  Captured(Match(r.r, st, code))
    [] r.t = "nla" -> IF Match(r.r, st, code) = <<>> THEN <<st>> ELSE <<>>
    [] r.t = "pla" -> IF Match(r.r, st, code) # <<>> THEN <<st>> ELSE <<>>
    [] r.t = "bol" ->
         IF st.pos = 1 \/ code[st.pos - 1] \in LineTerminators
         THEN <<st>> ELSE <<>>
    [] r.t = "eol" ->
         IF \/ st.pos = Len(code) + 1
            \/ (r.m /\ code[st.pos] \in LineTerminators)
         THEN <<st>> ELSE <<>>

\* the match of r that starts at position p, as exec reports it
MatchAt(r, code, p) ==
  LET First(ms) ==
        IF ms = <<>> THEN <<>>
        ELSE <<[index |-> p, end |-> ms[1].pos, caps |-> ms[1].caps]>>
  IN  First(Match(r, [pos |-> p, caps |-> NoCaps], code))

\* regex.exec under the g flag in a loop, and [...code.matchAll(regex)]:
\* every match from lastIndex on, left to right, each search resuming
\* where the last match ended (one further on after an empty match)
RECURSIVE ExecAll(_, _, _)
ExecAll(r, code, lastIndex) ==
  LET Rest(m) ==
        m \o ExecAll(r, code, IF m[1].end = m[1].index THEN m[1].index + 1
                              ELSE m[1].end)
      From(starts) ==
        IF starts = {} THEN <<>>
        ELSE Rest(MatchAt(r, code, CHOOSE q \in starts : \A s \in starts : q <= s))
  IN  From({p \in lastIndex..(Len(code) + 1) : MatchAt(r, code, p) # <<>>})

\* match[n]: the text of capture group n;  match[0]: the whole match
Group(code, m, n) == SubSeq(code, m.caps[n][1], m.caps[n][2] - 1)
Whole(code, m)    == SubSeq(code, m.index, m.end - 1)

\* regex.test without the g flag: is there a match anywhere
Test(r, code) == \E p \in 1..(Len(code) + 1) : MatchAt(r, code, p) # <<>>

(***************************************************************************)
(* String helpers                                                          *)
(***************************************************************************)
RECURSIVE TrimStart(_)
TrimStart(s) ==
  IF s # <<>> /\ Head(s) \in WhiteSpace THEN TrimStart(Tail(s)) ELSE s

RECURSIVE TrimEnd(_)
TrimEnd(s) ==
  IF s # <<>> /\ s[Len(s)] \in WhiteSpace
  THEN TrimEnd(SubSeq(s, 1, Len(s) - 1)) ELSE s

\* String.prototype.trim
Trim(s) == TrimEnd(TrimStart(s))

RECURSIVE Concat(_)
\* the texts of a sequence, one after the other
Concat(ss) == IF ss = <<>> THEN <<>> ELSE Head(ss) \o Concat(Tail(ss))

RECURSIVE Join(_, _)
\* Array.prototype.join
Join(ss, sep) ==
  IF ss = <<>> THEN <<>>
  ELSE IF Len(ss) = 1 THEN ss[1]
  ELSE ss[1] \o sep \o Join(Tail(ss), sep)

RECURSIVE Split(_, _)
\* String.prototype.split on a one-character separator (for /\r?\n/ the
\* "\r" before the separator belongs to the separator)
Split(s, sep) ==
  IF \A i \in 1..Len(s) : s[i] # sep THEN <<s>>
  ELSE LET k == CHOOSE i \in 1..Len(s) :
                  s[i] = sep /\ \A j \in 1..(i - 1) : s[j] # sep
       IN  <<SubSeq(s, 1, k - 1)>> \o Split(SubSeq(s, k + 1, Len(s)), sep)

DropCR(l) == IF l # <<>> /\ l[Len(l)] = "\r" THEN SubSeq(l, 1, Len(l) - 1) ELSE l

\* code.split(/\r?\n/)
SplitLines(s) ==
  LET Lines(ls) ==
        [i \in 1..Len(ls) |-> IF i < Len(ls) THEN DropCR(ls[i]) ELSE ls[i]]
  IN  Lines(Split(s, "\n"))

RECURSIVE DigitsOf(_)
\* a number as its decimal text, as a template literal renders it
DigitsOf(n) ==
  LET d == <<"0","1","2","3","4","5","6","7","8","9">>[(n % 10) + 1]
  IN  IF n < 10 THEN <<d>> ELSE DigitsOf(n \div 10) \o <<d>>

(***************************************************************************)
(* generateExplanation                                                     *)
(***************************************************************************)
Identifier == Cat(<<Cls("id0"), Star(Cls("idc"))>>)

\* /def\s+([A-Za-z_][A-Za-z0-9_]*)\s*\(([^)]*)\)/g
pyFuncRegex ==
  Cat(<<Lit(<<"d", "e", "f">>), Plus(Cls("s")), Grp(1, Identifier), Star(Cls("s")),
        Lit(<<"(">>), Grp(2, Star(Cls("notrp"))), Lit(<<")">>)>>)

\* /function\s+([A-Za-z_][A-Za-z0-9_]*)\s*\(([^)]*)\)/g
jsFuncRegex ==
  Cat(<<Lit(<<"f", "u", "n", "c", "t", "i", "o", "n">>),
        Plus(Cls("s")), Grp(1, Identifier), Star(Cls("s")),
        Lit(<<"(">>), Grp(2, Star(Cls("notrp"))), Lit(<<")">>)>>)

\* /([A-Za-z_][A-Za-z0-9_]*)\s*=\s*\(([^)]*)\)\s*=>/g
arrowFuncRegex ==
  Cat(<<Grp(1, Identifier), Star(Cls("s")), Lit(<<"=">>), Star(Cls("s")),
        Lit(<<"(">>), Grp(2, Star(Cls("notrp"))), Lit(<<")">>),
        Star(Cls("s")), Lit(<<"=", ">">>)>>)

\* one pass of "while ((match = regex.exec(code)) !== null) functions.push"
ExplainPass(regex, language, pass, code) ==
  LET Pushed(ms) ==
        [i \in 1..Len(ms) |->
           [language |-> language,
            pass     |-> pass,
            name     |-> Group(code, ms[i], 1),
            params   |-> Trim(Group(code, ms[i], 2)),
            index    |-> ms[i].index]]
  IN  Pushed(ExecAll(regex, code, 1))

RECURSIVE SortByIndex(_)
SortByIndex(fs) ==
  IF fs = <<>> THEN <<>>
  ELSE LET k == CHOOSE i \in 1..Len(fs) :
                  \A j \in 1..Len(fs) :
                    fs[i].index < fs[j].index
                      \/ (fs[i].index = fs[j].index /\ i <= j)
       IN  <<fs[k]>>
             \o SortByIndex(SubSeq(fs, 1, k - 1) \o SubSeq(fs, k + 1, Len(fs)))

\* the three passes merged by the position of the match in the text
ExplainFunctionsByPosition(code) ==
  SortByIndex(ExplainPass(pyFuncRegex, "Python", 1, code)
                \o ExplainPass(jsFuncRegex, "JavaScript", 2, code)
                \o ExplainPass(arrowFuncRegex, "JavaScript", 3, code))

\* the array functions of generateExplanation when its three loops are done
\* (index is match.index and pass the loop that pushed the entry; the source
\* keeps neither)
ExplainFunctions(code) ==
  ExplainPass(pyFuncRegex, "Python", 1, code)
    \o ExplainPass(jsFuncRegex, "JavaScript", 2, code)
    \o ExplainPass(arrowFuncRegex, "JavaScript", 3, code)

ExplainPart(f) ==
  <<f.language, ": função ">> \o f.name \o <<"(">>
    \o (IF f.params # <<>> THEN f.params ELSE <<"sem parâmetros">>)
    \o <<")">>

generateExplanation(code) ==
  LET Explain(functions) ==
        IF Len(functions) = 0
        THEN LET lines == SelectSeq(SplitLines(code), LAMBDA l : Trim(l) # <<>>)
             IN  <<"O código possui ">> \o DigitsOf(Len(lines))
                   \o <<" linha(s). Considere adicionar funções\npara organizar melhor a lógica e facilitar a manutenção.">>
        ELSE <<"Foram identificada(s) ">> \o DigitsOf(Len(functions))
               \o <<" função(ões): ">>
               \o Join([i \in 1..Len(functions) |-> ExplainPart(functions[i])],
                       <<"; ">>)
               \o <<".">>
  IN  Explain(ExplainFunctions(code))

(***************************************************************************)
(* generateSuggestion                                                      *)
(***************************************************************************)
\* /def\s+[A-Za-z_][A-Za-z0-9_]*\s*\([^)]*\)\s*:\s*(?:\n\s*)+(?!\"\"\")/g
docstringRegex ==
  Cat(<<Lit(<<"d", "e", "f">>), Plus(Cls("s")), Identifier, Star(Cls("s")),
        Lit(<<"(">>), Star(Cls("notrp")), Lit(<<")">>),
        Star(Cls("s")), Lit(<<":">>), Star(Cls("s")),
        Plus(Cat(<<Lit(<<"\n">>), Star(Cls("s"))>>)),
        NegLook(Lit(<<"\"", "\"", "\"">>))>>)

\* /^[ \t]*([A-Za-z_][A-Za-z0-9_]*)\s*=.+$/gm
assignRegex ==
  Cat(<<Bol, Star(Cls("sptab")), Grp(1, Identifier), Star(Cls("s")),
        Lit(<<"=">>), Plus(Cls("dot")), Eol(TRUE)>>)

\* /(const|let|var)\s+/
declRegex ==
  Cat(<<Grp(1, Alt(<<Lit(<<"c", "o", "n", "s", "t">>), Lit(<<"l", "e", "t">>), Lit(<<"v", "a", "r">>)>>)),
        Plus(Cls("s"))>>)

\* /def\s+[A-Za-z_][A-Za-z0-9_]*\s*\([^)]*\):\s*([\s\S]*?)\n(?=def |$)/g
longFuncRegex ==
  Cat(<<Lit(<<"d", "e", "f">>), Plus(Cls("s")), Identifier, Star(Cls("s")),
        Lit(<<"(">>), Star(Cls("notrp")), Lit(<<")">>), Lit(<<":">>),
        Star(Cls("s")), Grp(1, LazyStar(Cls("any"))), Lit(<<"\n">>),
        Look(Alt(<<Lit(<<"d", "e", "f", " ">>), Eol(FALSE)>>))>>)

\* the length a function body must exceed, in lines
LongLimit == 20

pyFuncs(code) == ExecAll(docstringRegex, code, 1)

undeclaredJS(code) ==
  SelectSeq(ExecAll(assignRegex, code, 1),
            LAMBDA m : ~Test(declRegex, Whole(code, m)))

longFuncs(code) ==
  SelectSeq(ExecAll(longFuncRegex, code, 1),
            LAMBDA m : Len(SplitLines(Group(code, m, 1))) > LongLimit)

DocstringAdvice ==
  "Adicione docstrings às suas funções em Python para explicar o propósito e os parâmetros."
DeclarationAdvice ==
  "No JavaScript, declare variáveis usando const ou let para evitar problemas de escopo."
DecompositionAdvice ==
  "Considere dividir funções muito longas em funções menores para melhorar a legibilidade."
NamingAdvice ==
  "Use nomes de variáveis e funções descritivos e adicione comentários quando necessário."
ErrorHandlingAdvice ==
  "Implemente tratamento de erros para tornar o código mais robusto."

\* each check pushing its advisory once for every match it found
SpecificSuggestionsPerMatch(code) ==
  [i \in 1..Len(pyFuncs(code)) |-> DocstringAdvice]
    \o [i \in 1..Len(undeclaredJS(code)) |-> DeclarationAdvice]
    \o [i \in 1..Len(longFuncs(code)) |-> DecompositionAdvice]

\* the array suggestions after the three checks
SpecificSuggestions(code) ==
  (IF Len(pyFuncs(code)) > 0 THEN <<DocstringAdvice>> ELSE <<>>)
    \o (IF Len(undeclaredJS(code)) > 0 THEN <<DeclarationAdvice>> ELSE <<>>)
    \o (IF Len(longFuncs(code)) > 0 THEN <<DecompositionAdvice>> ELSE <<>>)

\* the fallback pushing only its first advisory
SuggestionsOneGeneric(code) ==
  LET Fallback(suggestions) ==
        IF Len(suggestions) = 0 THEN <<NamingAdvice>> ELSE suggestions
  IN  Fallback(SpecificSuggestions(code))

\* the array suggestions when generateSuggestion joins it
Suggestions(code) ==
  LET Fallback(suggestions) ==
        IF Len(suggestions) = 0 THEN <<NamingAdvice, ErrorHandlingAdvice>>
        ELSE suggestions
  IN  Fallback(SpecificSuggestions(code))

generateSuggestion(code) ==
  LET Joined(suggestions) ==
        Join([i \in 1..Len(suggestions) |-> <<suggestions[i]>>], <<" ">>)
  IN  Joined(Suggestions(code))

(***************************************************************************)
(* generateDocumentation                                                   *)
(***************************************************************************)
\* the character U+0060 of the template literals, which a string of this
\* module cannot hold
Backtick == "U+0060"

\* /def\s+([A-Za-z_][A-Za-z0-9_]*)\s*\(([^)]*)\)/g
pyRegex ==
  Cat(<<Lit(<<"d", "e", "f">>), Plus(Cls("s")),
        Grp(1, Cat(<<Cls("id0"), Star(Cls("idc"))>>)), Star(Cls("s")),
        Lit(<<"(">>), Grp(2, Star(Cls("notrp"))), Lit(<<")">>)>>)

\* /function\s+([A-Za-z_][A-Za-z0-9_]*)\s*\(([^)]*)\)/g
jsRegex ==
  Cat(<<Lit(<<"f", "u", "n", "c", "t", "i", "o", "n">>),
        Plus(Cls("s")),
        Grp(1, Cat(<<Cls("id0"), Star(Cls("idc"))>>)), Star(Cls("s")),
        Lit(<<"(">>), Grp(2, Star(Cls("notrp"))), Lit(<<")">>)>>)

\* arrowRegex without the \s* before =>
arrowRegexNoSpace ==
  Cat(<<Grp(1, Cat(<<Cls("id0"), Star(Cls("idc"))>>)), Star(Cls("s")),
        Lit(<<"=">>), Star(Cls("s")),
        Lit(<<"(">>), Grp(2, Star(Cls("notrp"))), Lit(<<")">>),
        Lit(<<"=", ">">>)>>)

\* /([A-Za-z_][A-Za-z0-9_]*)\s*=\s*\(([^)]*)\)\s*=>/g
arrowRegex ==
  Cat(<<Grp(1, Cat(<<Cls("id0"), Star(Cls("idc"))>>)), Star(Cls("s")),
        Lit(<<"=">>), Star(Cls("s")),
        Lit(<<"(">>), Grp(2, Star(Cls("notrp"))), Lit(<<")">>),
        Star(Cls("s")), Lit(<<"=", ">">>)>>)

\* one pass of "while ((match = regex.exec(code)) !== null) functions.push"
DocPass(regex, code) ==
  LET Pushed(ms) ==
        [i \in 1..Len(ms) |->
           [name   |-> Group(code, ms[i], 1),
            params |-> Trim(Group(code, ms[i], 2))]]
  IN  Pushed(ExecAll(regex, code, 1))

\* the array functions of generateDocumentation when its three loops are done
DocFunctions(code) ==
  DocPass(pyRegex, code) \o DocPass(jsRegex, code) \o DocPass(arrowRegex, code)

\* DocParams without the trim of each piece
DocParamsNoTrim(fn) ==
  IF fn.params # <<>> THEN Split(fn.params, ",") ELSE <<>>

\* fn.params ? fn.params.split(',').map((p) => p.trim()) : []
DocParams(fn) ==
  IF fn.params # <<>>
  THEN LET Trimmed(ps) == [i \in 1..Len(ps) |-> Trim(ps[i])]
       IN  Trimmed(Split(fn.params, ","))
  ELSE <<>>

\* the lines one turn of functions.forEach pushes
DocStub(fn) ==
  LET Stub(params) ==
        <<(<<"### Função ", Backtick>> \o fn.name \o <<"()", Backtick>>),
          <<"**Descrição:** descreva aqui o que a função faz.">>>>
        \o (IF Len(params) > 0 /\ ~(Len(params) = 1 /\ params[1] = <<>>)
            THEN <<<<"**Parâmetros:**">>>>
                   \o [i \in 1..Len(params) |->
                         <<"- ", Backtick>> \o params[i]
                           \o <<Backtick, ": descrição do parâmetro.">>]
            ELSE <<<<"**Parâmetros:** Esta função não recebe parâmetros.">>>>)
        \o <<<<"**Retorno:** descreva aqui o valor retornado pela função.">>,
             <<>>>>
  IN  Stub(DocParams(fn))

\* the array docLines when generateDocumentation joins it
DocLines(code) ==
  LET Lines(functions) ==
        IF Len(functions) = 0
        THEN <<<<"# Documentação do Código">>,
               <<"Este trecho de código não contém definições de funções.">>,
               <<"Use seções e comentários para documentar a lógica.">>>>
        ELSE Concat([i \in 1..Len(functions) |-> DocStub(functions[i])])
  IN  Lines(DocFunctions(code))

generateDocumentation(code) == Join(DocLines(code), <<"\n">>)

(***************************************************************************)
(* analyzeCode, the click handler                                          *)
(***************************************************************************)
\* calls made to analyzeCode in one run of the model
MaxCalls == 3

\* the page as loaded: nothing displayed, the output section hidden
InitPage ==
  /\ originalCode = <<>>
  /\ explanation = <<>>
  /\ suggestion = <<>>
  /\ documentation = <<>>
  /\ hidden = TRUE
  /\ alerts = 0
  /\ calls = 0
  /\ ran = {}
  /\ lastCode = <<>>

\* analyzeCode with "!code" for "!code.trim()": only the empty text is refused
analyzeCodeNoTrim ==
  /\ calls < MaxCalls
  /\ calls' = calls + 1
  /\ input' = input
  /\ lastCode' = input
  /\ IF input = <<>>
     THEN /\ alerts' = alerts + 1
          /\ ran' = {}
          /\ UNCHANGED <<originalCode, explanation, suggestion,
                         documentation, hidden>>
     ELSE /\ originalCode' = input
          /\ explanation' = generateExplanation(input)
          /\ suggestion' = generateSuggestion(input)
          /\ documentation' = generateDocumentation(input)
          /\ hidden' = FALSE
          /\ ran' = {"generateExplanation", "generateSuggestion",
                     "generateDocumentation"}
          /\ alerts' = alerts

\* analyzeCode hiding the output section when it refuses the input
analyzeCodeHideOnReject ==
  /\ calls < MaxCalls
  /\ calls' = calls + 1
  /\ input' = input
  /\ lastCode' = input
  /\ IF Trim(input) = <<>>
     THEN /\ alerts' = alerts + 1
          /\ ran' = {}
          /\ hidden' = TRUE
          /\ UNCHANGED <<originalCode, explanation, suggestion,
                         documentation>>
     ELSE /\ originalCode' = input
          /\ explanation' = generateExplanation(input)
          /\ suggestion' = generateSuggestion(input)
          /\ documentation' = generateDocumentation(input)
          /\ hidden' = FALSE
          /\ ran' = {"generateExplanation", "generateSuggestion",
                     "generateDocumentation"}
          /\ alerts' = alerts

\* analyzeCode keeping the explanation of the first accepted text
analyzeCodeStale ==
  /\ calls < MaxCalls
  /\ calls' = calls + 1
  /\ input' = input
  /\ lastCode' = input
  /\ IF Trim(input) = <<>>
     THEN /\ alerts' = alerts + 1
          /\ ran' = {}
          /\ UNCHANGED <<originalCode, explanation, suggestion,
                         documentation, hidden>>
     ELSE /\ originalCode' = input
          /\ explanation' = IF hidden THEN generateExplanation(input)
                            ELSE explanation
          /\ suggestion' = generateSuggestion(input)
          /\ documentation' = generateDocumentation(input)
          /\ hidden' = FALSE
          /\ ran' = {"generateExplanation", "generateSuggestion",
                     "generateDocumentation"}
          /\ alerts' = alerts

\* input is the value of the textarea code-input; lastCode is the const code
\* of the last call; alerts counts the alerts shown; ran holds the passes
\* the last call ran
analyzeCode ==
  /\ calls < MaxCalls
  /\ calls' = calls + 1
  /\ input' = input
  /\ lastCode' = input
  /\ IF Trim(input) = <<>>
     THEN /\ alerts' = alerts + 1
          /\ ran' = {}
          /\ UNCHANGED <<originalCode, explanation, suggestion,
                         documentation, hidden>>
     ELSE /\ originalCode' = input
          /\ explanation' = generateExplanation(input)
          /\ suggestion' = generateSuggestion(input)
          /\ documentation' = generateDocumentation(input)
          /\ hidden' = FALSE
          /\ ran' = {"generateExplanation", "generateSuggestion",
                     "generateDocumentation"}
          /\ alerts' = alerts

\* the user replaces the content of the textarea code-input
TypeInput(t) ==
  /\ input' = t
  /\ UNCHANGED <<originalCode, explanation, suggestion, documentation,
                 hidden, alerts, calls, ran, lastCode>>

(***************************************************************************)
(* Input texts                                                             *)
(***************************************************************************)
RECURSIVE Repeat(_, _)
Repeat(s, n) == IF n = 0 THEN <<>> ELSE s \o Repeat(s, n - 1)

RECURSIVE TextsUpTo(_, _)
\* the texts made of at most n pieces of P, one after the other
TextsUpTo(P, n) ==
  IF n = 0 THEN {<<>>}
  ELSE LET shorter == TextsUpTo(P, n - 1)
       IN  shorter \cup {s \o q : s \in shorter, q \in P}

\* pieces a text of the one-call specifications is made of
MaxPieces == 3

\* the texts typed during a session: blank ones and the examples
SessionTexts ==
  { <<>>,
    <<" ", " ", " ">>,
    <<"\n">>,
    <<" ", "\t", "\n">>,
    <<"d", "e", "f", " ", "f", "o", "o", "(", "x", ")", ":", "\n", " ", " ", " ", " ", "p", "a", "s", "s">>,
    <<"c", "o", "n", "s", "t", " ", "a", "d", "d", " ", "=", " ", "(", "a", ",", " ", "b", ")", " ", "=", ">", " ", "a", " ", "+", " ", "b", ";">>,
    <<"x", " ", "=", " ", "1">> }

\* pieces for the signature passes: the three shapes, an unclosed header,
\* a closing parenthesis, a comma and a line break
ExtractPieces ==
  { <<"d", "e", "f", " ", "f", "(", " ", "a", ",", " ", "b", ")">>,
    <<"f", "u", "n", "c", "t", "i", "o", "n", " ", "g", "(", ")">>,
    <<"h", " ", "=", " ", "(", " ", "c", " ", ")", " ", "=", ">">>,
    <<"d", "e", "f", " ", "k", "(">>,
    <<")">>, <<",">>, <<"\n">> }

\* pieces for the advisories: a header, a line break, a line break with
\* indentation, the triple quote, an assignment, a declaration keyword and
\* a body of LongLimit + 1 lines that ends with a line break
AdvicePieces ==
  { <<"d", "e", "f", " ", "f", "(", ")", ":">>,
    <<"\n">>, <<"\n", " ", " ">>, <<"\"", "\"", "\"">>,
    <<"x", " ", "=", " ", "1">>,
    <<"l", "e", "t", " ">>,
    Repeat(<<"\n", "p">>, LongLimit + 1) \o <<"\n">> }

\* pieces for the long-function check: a header alone, a header with
\* LongLimit lines after it, one more line, a line break, a second header
\* at the start of a line
LongPieces ==
  { <<"d", "e", "f", " ", "f", "(", ")", ":">>,
    <<"d", "e", "f", " ", "f", "(", ")", ":">> \o Repeat(<<"\n", "p">>, LongLimit),
    <<"\n", "p">>, <<"\n">>,
    <<"\n", "d", "e", "f", " ", "g", "(", ")", ":">> }

(***************************************************************************)
(* Specifications                                                          *)
(***************************************************************************)
\* a session: the user types and clicks, up to MaxCalls clicks
Init == InitPage /\ input \in SessionTexts

Next == analyzeCode \/ \E t \in SessionTexts : TypeInput(t)

Spec == Init /\ [][Next]_vars

\* one click on a text already typed
AnalyzeOnce == calls = 0 /\ analyzeCode

InitExtract == InitPage /\ input \in TextsUpTo(ExtractPieces, MaxPieces)
SpecExtract == InitExtract /\ [][AnalyzeOnce]_vars

InitAdvice == InitPage /\ input \in TextsUpTo(AdvicePieces, MaxPieces)
SpecAdvice == InitAdvice /\ [][AnalyzeOnce]_vars

InitLong == InitPage /\ input \in TextsUpTo(LongPieces, MaxPieces)
SpecLong == InitLong /\ [][AnalyzeOnce]_vars

(***************************************************************************)
(* Properties of analyzeCode                                               *)
(***************************************************************************)
AllWhiteSpace(s) == \A i \in 1..Len(s) : s[i] \in WhiteSpace

Display == <<originalCode, explanation, suggestion, documentation>>

NothingDisplayed == Display = <<<<>>, <<>>, <<>>, <<>>>>

\* the last call refused its input
LastRejected == calls > 0 /\ ran = {}

\* C1: a call on a text with no character other than white space shows the
\* alert, runs none of the three passes and leaves the four display fields
\* and the visibility of the output section as they were.
C1_EmptyInputRejected ==
  [][(calls' = calls + 1 /\ AllWhiteSpace(input)) =>
       /\ alerts' = alerts + 1
       /\ ran' = {}
       /\ Display' = Display
       /\ hidden' = hidden]_vars

\* a white-space-only text has just been refused while results of an
\* earlier call are on display
C1_Witness ==
  /\ LastRejected
  /\ lastCode # <<>> /\ AllWhiteSpace(lastCode)
  /\ alerts > 0
  /\ ~hidden /\ originalCode # <<>>

\* C2 as stated: whenever the last call was given a white-space-only text
\* and refused it, the output section is hidden and nothing is displayed.
C2_Original ==
  (LastRejected /\ lastCode # <<>> /\ AllWhiteSpace(lastCode)) =>
    (hidden /\ NothingDisplayed)

\* C2, amended: after a refused call the output section is hidden exactly
\* when no call has been accepted so far, and then nothing is displayed;
\* after an accepted call a refusal leaves the section shown with the
\* results of the accepted text.
C2_RejectedKeepsPage ==
  LastRejected =>
    /\ hidden <=> (alerts = calls)
    /\ hidden => NothingDisplayed
    /\ ~hidden => /\ ~AllWhiteSpace(originalCode)
                  /\ explanation = generateExplanation(originalCode)

\* a refusal that follows an accepted call: the section is still shown
C2_Witness ==
  /\ LastRejected
  /\ lastCode = <<" ", " ", " ">>
  /\ alerts < calls
  /\ ~hidden

\* C10: what is displayed depends on the last accepted text alone: the
\* echo is that text, the three fields are what the three passes give for
\* it, an accepted call displays its own input and a refused call changes
\* nothing.
C10_DisplayOfLastAccepted ==
  /\ [](~hidden =>
          /\ ~AllWhiteSpace(originalCode)
          /\ explanation = generateExplanation(originalCode)
          /\ suggestion = generateSuggestion(originalCode)
          /\ documentation = generateDocumentation(originalCode))
  /\ [][(calls' = calls + 1 /\ ~AllWhiteSpace(input)) =>
          (originalCode' = input /\ ~hidden')]_vars
  /\ [][(calls' = calls + 1 /\ AllWhiteSpace(input)) =>
          originalCode' = originalCode]_vars

\* a second accepted call has replaced the results of a first one on a
\* different text
C10_Witness ==
  /\ calls = alerts + 2
  /\ ~hidden
  /\ originalCode = lastCode
  /\ ran # {}
  /\ explanation[1] = "O código possui "

(***************************************************************************)
(* Properties of the signature passes                                      *)
(***************************************************************************)
Positions(code) == 1..(Len(code) + 1)

\* where a match of r may start, and where the match from p ends
StartsOf(r, code) == {p \in Positions(code) : MatchAt(r, code, p) # <<>>}
EndOf(r, code, p) == MatchAt(r, code, p)[1].end

\* X holds the starts of all matches of r, left to right, none inside
\* an earlier one
IsLeftToRightScan(X, r, code) ==
  /\ X \subseteq StartsOf(r, code)
  /\ \A p \in StartsOf(r, code) :
       p \in X <=> ~\E q \in X : q < p /\ p < EndOf(r, code, q)

PassRegex(k) ==
  CASE k = 1 -> pyFuncRegex [] k = 2 -> jsFuncRegex [] k = 3 -> arrowFuncRegex

\* C3: the signatures of generateExplanation are all def matches left to
\* right, then all function matches left to right, then all arrow
\* matches left to right; entries of different passes are never ordered by
\* their position in the text, and the explanation lists them in this
\* order.
C3_PassOrder ==
  ~hidden =>
    LET fns == ExplainFunctions(originalCode)
        N   == Len(fns)
    IN  /\ \A i, j \in 1..N :
             i < j => \/ fns[i].pass < fns[j].pass
                      \/ /\ fns[i].pass = fns[j].pass
                         /\ fns[i].index < fns[j].index
        /\ \A k \in 1..3 :
             IsLeftToRightScan({fns[i].index : i \in {j \in 1..N : fns[j].pass = k}},
                               PassRegex(k), originalCode)
        /\ \A i \in 1..N :
             /\ fns[i].language = (IF fns[i].pass = 1 THEN "Python" ELSE "JavaScript")
             /\ fns[i].name = Group(originalCode,
                                    MatchAt(PassRegex(fns[i].pass), originalCode,
                                            fns[i].index)[1], 1)
        /\ N > 0 =>
             explanation =
               <<"Foram identificada(s) ">> \o DigitsOf(N) \o <<" função(ões): ">>
                 \o Concat([i \in 1..N |->
                              (IF i = 1 THEN <<>> ELSE <<"; ">>)
                                \o <<fns[i].language, ": função ">> \o fns[i].name
                                \o <<"(">>
                                \o (IF fns[i].params = <<>> THEN <<"sem parâmetros">>
                                    ELSE fns[i].params)
                                \o <<")">>])
                 \o <<".">>

\* a function header stands before a def header in the text, and the def
\* signature is listed first
C3_Witness ==
  /\ ~hidden
  /\ LET fns == ExplainFunctions(originalCode)
     IN  \E i, j \in 1..Len(fns) :
           /\ i < j
           /\ fns[i].pass = 1 /\ fns[j].pass = 2
           /\ fns[j].index < fns[i].index

\* the number a decimal text stands for
RECURSIVE NatOf(_)
NatOf(ds) ==
  IF ds = <<>> THEN 0
  ELSE 10 * NatOf(SubSeq(ds, 1, Len(ds) - 1))
         + (CHOOSE d \in 0..9 : DigitsOf(d) = <<ds[Len(ds)]>>)

\* the function count the displayed explanation reports
ReportedCount ==
  LET k == CHOOSE i \in 1..Len(explanation) : explanation[i] = " função(ões): "
  IN  NatOf(SubSeq(explanation, 2, k - 1))

\* the number of stubs in the displayed documentation
StubCount == Cardinality({i \in 1..Len(documentation) : documentation[i] = "### Função "})

GenericExplanation == explanation[1] = "O código possui "
GenericDocumentation == documentation[1] = "# Documentação do Código"

\* C6: generateDocumentation finds the signatures generateExplanation
\* finds: as many, with the same names and trimmed parameter texts in the
\* same order; the documentation has as many stubs as the explanation
\* reports functions, and is the generic stub exactly when the explanation
\* is the generic line-count message.
C6_SameExtraction ==
  ~hidden =>
    LET e == ExplainFunctions(originalCode)
        d == DocFunctions(originalCode)
    IN  /\ Len(d) = Len(e)
        /\ \A i \in 1..Len(e) :
             d[i].name = e[i].name /\ d[i].params = e[i].params
        /\ GenericDocumentation <=> GenericExplanation
        /\ GenericExplanation <=> Len(e) = 0
        /\ ~GenericExplanation =>
             (ReportedCount = StubCount /\ StubCount = Len(d))

\* both passes found a def, a function and an arrow signature
C6_Witness ==
  /\ ~hidden
  /\ ~GenericExplanation
  /\ ReportedCount = 3 /\ StubCount = 3
  /\ {ExplainFunctions(originalCode)[i].pass : i \in 1..3} = {1, 2, 3}

\* the pieces of a parameter text between its commas, by position
Commas(s) == {i \in 1..Len(s) : s[i] = ","}

PieceBounds(s, k) ==
  LET nth(n) == CHOOSE i \in Commas(s) :
                  Cardinality({j \in Commas(s) : j <= i}) = n
  IN  <<IF k = 1 THEN 1 ELSE nth(k - 1) + 1,
        IF k = Cardinality(Commas(s)) + 1 THEN Len(s) ELSE nth(k) - 1>>

\* a text without the white space at its two ends
Stripped(s) ==
  LET solid == {i \in 1..Len(s) : s[i] \notin WhiteSpace}
  IN  IF solid = {} THEN <<>>
      ELSE SubSeq(s, CHOOSE i \in solid : \A j \in solid : i <= j,
                     CHOOSE i \in solid : \A j \in solid : j <= i)

ExpectedBullets(params) ==
  [k \in 1..(Cardinality(Commas(params)) + 1) |->
     <<"- ", Backtick>>
       \o Stripped(SubSeq(params, PieceBounds(params, k)[1], PieceBounds(params, k)[2]))
       \o <<Backtick, ": descrição do parâmetro.">>]

ExpectedStub(fn) ==
  <<(<<"### Função ", Backtick>> \o fn.name \o <<"()", Backtick>>),
    <<"**Descrição:** descreva aqui o que a função faz.">>>>
  \o (IF fn.params = <<>>
      THEN <<<<"**Parâmetros:** Esta função não recebe parâmetros.">>>>
      ELSE <<<<"**Parâmetros:**">>>> \o ExpectedBullets(fn.params))
  \o <<<<"**Retorno:** descreva aqui o valor retornado pela função.">>, <<>>>>

\* C7: for every signature, in the order of extraction, the documentation
\* has one stub: a header with the name, the description line, the
\* parameter section, the return line and an empty line; the parameter
\* section has one bullet for each piece between commas, trimmed, left to
\* right, or is the single no-parameters line when the parameter text is
\* empty.
C7_StubShape ==
  (~hidden /\ DocFunctions(originalCode) # <<>>) =>
    LET fns   == DocFunctions(originalCode)
        lines == Concat([i \in 1..Len(fns) |-> ExpectedStub(fns[i])])
    IN  /\ DocLines(originalCode) = lines
        /\ documentation =
             Concat([i \in 1..Len(lines) |->
                       (IF i = 1 THEN <<>> ELSE <<"\n">>) \o lines[i]])

\* the parameter text "a, b" has given the two bullets a and b, in this
\* order, and a function without parameters the no-parameters line
C7_Witness ==
  /\ ~hidden
  /\ \E i \in 1..Len(DocFunctions(originalCode)) :
       DocFunctions(originalCode)[i].params = <<"a", ",", " ", "b">>
  /\ \E i \in 1..(Len(documentation) - 12) :
       SubSeq(documentation, i, i + 12) =
         <<"**Parâmetros:**", "\n",
           "- ", Backtick, "a", Backtick, ": descrição do parâmetro.", "\n",
           "- ", Backtick, "b", Backtick, ": descrição do parâmetro.">>
  /\ \E i \in 1..Len(documentation) :
       documentation[i] = "**Parâmetros:** Esta função não recebe parâmetros."

(***************************************************************************)
(* Properties of the advisories                                            *)
(***************************************************************************)
\* the advisories of the displayed suggestion, without the spaces between
Advisories ==
  [i \in 1..((Len(suggestion) + 1) \div 2) |-> suggestion[2 * i - 1]]

JoinedBySpaces ==
  /\ Len(suggestion) % 2 = 1
  /\ \A i \in 1..Len(suggestion) : (i % 2 = 0) => suggestion[i] = " "

HasAdvice(a) == \E i \in 1..Len(Advisories) : Advisories[i] = a

GenericAdvice == <<NamingAdvice, ErrorHandlingAdvice>>

NoSignature(code) == ExplainFunctions(code) = <<>>

\* C4 as stated: a text with no def, function or arrow signature gets the
\* two generic advisories and nothing else.
C4_Original ==
  (~hidden /\ NoSignature(originalCode)) =>
    (JoinedBySpaces /\ Advisories = GenericAdvice)

\* C4, amended: a text with no def, function or arrow signature and no
\* assignment line without const, let or var gets exactly the two generic
\* advisories, naming first, joined by one space.
C4_GenericFallback ==
  (~hidden /\ NoSignature(originalCode) /\ undeclaredJS(originalCode) = <<>>) =>
    suggestion = <<NamingAdvice, " ", ErrorHandlingAdvice>>

\* a text without signature whose only assignment line is declared has
\* got the two generic advisories
C4_Witness ==
  /\ ~hidden
  /\ NoSignature(originalCode)
  /\ ExecAll(assignRegex, originalCode, 1) # <<>>
  /\ undeclaredJS(originalCode) = <<>>
  /\ suggestion = <<NamingAdvice, " ", ErrorHandlingAdvice>>

\* /def\s+[A-Za-z_][A-Za-z0-9_]*\s*\([^)]*\)\s*:/ : a def header with its colon
HeaderWithColon ==
  Cat(<<Lit(<<"d", "e", "f">>), Plus(Cls("s")), Identifier, Star(Cls("s")),
        Lit(<<"(">>), Star(Cls("notrp")), Lit(<<")">>),
        Star(Cls("s")), Lit(<<":">>)>>)

\* the first position from p on that holds no white space
RECURSIVE SkipWhiteSpace(_, _)
SkipWhiteSpace(code, p) ==
  IF p <= Len(code) /\ code[p] \in WhiteSpace THEN SkipWhiteSpace(code, p + 1)
  ELSE p

\* the header that starts at p is followed by white space with a line break
\* in it and then by something other than the triple quote
BlankThenNoQuote(code, p) ==
  LET e == EndOf(HeaderWithColon, code, p)
      q == SkipWhiteSpace(code, e)
  IN  /\ \E i \in e..(q - 1) : code[i] = "\n"
      /\ ~IsPrefixAt(<<"\"", "\"", "\"">>, code, q)

\* C5: the docstring reminder is given exactly when some def header is
\* followed by one or more blank lines and not by the triple quote; a text
\* whose every def header is followed, after the line break and the
\* indentation, by the triple quote does not get it.
C5_DocstringReminder ==
  ~hidden =>
    (HasAdvice(DocstringAdvice) <=>
       \E p \in StartsOf(HeaderWithColon, originalCode) :
         BlankThenNoQuote(originalCode, p))

\* /def\s+[A-Za-z_][A-Za-z0-9_]*\s*\([^)]*\):/ : a def header up to its colon
HeaderNoSpaceColon ==
  Cat(<<Lit(<<"d", "e", "f">>), Plus(Cls("s")), Identifier, Star(Cls("s")),
        Lit(<<"(">>), Star(Cls("notrp")), Lit(<<")">>), Lit(<<":">>)>>)

\* the body of the def header at p: the text after it up to the next def
\* header or the end of the text
BodyOf(code, p) ==
  LET e    == EndOf(HeaderNoSpaceColon, code, p)
      next == {q \in StartsOf(HeaderNoSpaceColon, code) : q >= e}
      stop == IF next = {} THEN Len(code) + 1
              ELSE CHOOSE q \in next : \A r \in next : q <= r
  IN  SubSeq(code, e, stop - 1)

LineCount(s) == Cardinality({i \in 1..Len(s) : s[i] = "\n"}) + 1

\* C8: the decomposition reminder is given exactly when the body of some
\* def function, which runs to the next def header or to the end of the
\* text, has more than LongLimit lines; the last function of a text that
\* does not end with a line break is included.  The lines of a body are
\* counted without the white space around it where the claim promises the
\* reminder and with it where the claim excludes the reminder, so that the
\* statement does not rest on how the line after the header is counted.
C8_LongFunctionReminder ==
  ~hidden =>
    /\ (\E p \in StartsOf(HeaderNoSpaceColon, originalCode) :
          LineCount(Stripped(BodyOf(originalCode, p))) > LongLimit)
         => HasAdvice(DecompositionAdvice)
    /\ HasAdvice(DecompositionAdvice)
         => \E p \in StartsOf(HeaderNoSpaceColon, originalCode) :
              LineCount(BodyOf(originalCode, p)) > LongLimit

Fired(code) ==
  <<pyFuncs(code) # <<>>, undeclaredJS(code) # <<>>, longFuncs(code) # <<>>>>

\* C9: the advisories are either the docstring, declaration and
\* decomposition reminders of the checks that fired, in this order and
\* once each, or, exactly when no check fired, the two generic ones; a
\* generic advisory never stands with a specific one and the list is never
\* empty.
C9_AdvisoryList ==
  ~hidden =>
    LET f == Fired(originalCode)
        specific == (IF f[1] THEN <<DocstringAdvice>> ELSE <<>>)
                      \o (IF f[2] THEN <<DeclarationAdvice>> ELSE <<>>)
                      \o (IF f[3] THEN <<DecompositionAdvice>> ELSE <<>>)
    IN  /\ JoinedBySpaces
        /\ Advisories # <<>>
        /\ (Advisories = GenericAdvice) <=> (f = <<FALSE, FALSE, FALSE>>)
        /\ (Advisories # GenericAdvice) => Advisories = specific
        /\ \A i, j \in 1..Len(Advisories) :
             i # j => Advisories[i] # Advisories[j]

\* the three checks have fired and the three reminders are displayed
C9_Witness ==
  /\ ~hidden
  /\ Fired(originalCode) = <<TRUE, TRUE, TRUE>>
  /\ Advisories = <<DocstringAdvice, DeclarationAdvice, DecompositionAdvice>>

====
